---- MODULE Spec2Model ----
(***************************************************************************)
(* Model of src/cheapest_flight_finder.py: the multi-city cheapest flight  *)
(* finder.  A run (run_check) expands each segment's date window, queries  *)
(* the fare provider once per date, keeps the cheapest quote per airline,  *)
(* combines the segments, and alerts / records the price.                  *)
(*                                                                         *)
(* Representation.                                                         *)
(*  - A date string "YYYY-MM-DD" is the triple <<y, m, d>>; a datetime is  *)
(*    its day number (strptime / strftime convert between the two).        *)
(*  - A flight offer is [airline, price, date]: validatingAirlineCodes[0], *)
(*    float(price.total) and the departure date of its first leg.  An      *)
(*    airline_best entry {"offer", "price", "date"} is [offer, price, date].*)
(*  - A dict is the sequence of its items in insertion order.              *)
(*  - Prices are integers (whole SGD).                                     *)
(*  - The provider answers a query with well-formed offers or raises.      *)
(*  - The Telegram call and the SQLite calls are taken to complete; the    *)
(*    airline-name cache (table airlines) only feeds the message text and  *)
(*    is left out.                                                         *)
(*                                                                         *)
(* Specifications.                                                         *)
(*   Spec         run_check, run after run on one database                 *)
(*   SpecScan     find_cheapest_per_segment, query by query                *)
(*   SpecDates    generate_date_options on any segment and step            *)
(*   SpecIndex    the per-airline index update on any sequence of offers   *)
(*   SpecHistory  save_offer / get_prev_best on any keys and prices        *)
(*   SpecCombine  combine_segments on any list of segment results          *)
(***************************************************************************)
EXTENDS Integers, Sequences, FiniteSets, TLC

VARIABLES
    pc,                 \* position of run_check / of the function under test
    same_airline,       \* PREFER_SAME_AIRLINE
    step,               \* STEP_DAYS
    itinerary,          \* ITINERARY: sequence of segments
    run,                \* number of run_check invocations started
    seg_i,              \* index in ITINERARY of the segment being scanned
    dates,              \* dates of the current segment not yet queried
    airline_best,       \* the dict airline_best of the current segment
    segment_cheapest,   \* the list segment_cheapest
    best_offer,         \* result of combine_segments (None or a FlightOffer)
    db,                 \* rows of table cheapest_flights, in insertion order
    alerts,             \* Telegram messages sent by the current run
    outcome,            \* which branch the current run ended in
    queried,            \* history (SpecScan): the queries issued, <<segment, date, answered>>
    seen,               \* history (SpecScan): per segment, the <<airline, price>> of the offers answered
    fed,                \* history (SpecIndex): the offers folded into airline_best, in order
    db0                 \* history: db when the current run started

vars == <<pc, same_airline, step, itinerary, run, seg_i, dates, airline_best,
          segment_cheapest, best_offer, db, alerts, outcome,
          queried, seen, fed, db0>>

\* Optional values: None is the empty sequence, a present value x is <<x>>.
None == <<>>
Some(x) == <<x>>

(***************************************************************************)
(* Configuration constants and bounds                                      *)
(***************************************************************************)
MAX_PRICE == 1400
STEP_DAYS == 2

\* Bounds of the model.
MaxQuotes == 2      \* offers in one provider response
MaxRuns == 2        \* run_check invocations in one behaviour
MaxSegments == 2    \* segments handed to combine_segments on its own
MaxRows == 3        \* save_offer calls on the history table on its own
MaxFed == 3         \* offers folded into one index on its own
MaxWindow == 4      \* days_range handed to generate_date_options on its own

Airlines == {"AA", "BB"}
Prices == {0, 500, 950}

(***************************************************************************)
(* Dates: datetime.strptime, timedelta, strftime                           *)
(***************************************************************************)
IsLeap(y) == (y % 4 = 0 /\ y % 100 # 0) \/ y % 400 = 0

DaysInMonth(y, m) ==
    IF m = 2 THEN (IF IsLeap(y) THEN 29 ELSE 28)
    ELSE IF m \in {4, 6, 9, 11} THEN 30 ELSE 31

DaysInYear(y) == IF IsLeap(y) THEN 366 ELSE 365

\* Day numbers count from 1 January 2026 (day 1).
RECURSIVE DaysBeforeYear(_)
DaysBeforeYear(y) ==
    IF y <= 2026 THEN 0 ELSE DaysBeforeYear(y - 1) + DaysInYear(y - 1)

RECURSIVE DaysBeforeMonth(_, _)
DaysBeforeMonth(y, m) ==
    IF m <= 1 THEN 0 ELSE DaysBeforeMonth(y, m - 1) + DaysInMonth(y, m - 1)

\* datetime.strptime(s, "%Y-%m-%d")
strptime(s) == DaysBeforeYear(s[1]) + DaysBeforeMonth(s[1], s[2]) + s[3]

RECURSIVE YearOf(_, _)
YearOf(n, y) == IF n <= DaysInYear(y) THEN <<y, n>> ELSE YearOf(n - DaysInYear(y), y + 1)

RECURSIVE MonthOf(_, _, _)
MonthOf(n, y, m) ==
    IF n <= DaysInMonth(y, m) THEN <<m, n>> ELSE MonthOf(n - DaysInMonth(y, m), y, m + 1)

\* dt.strftime("%Y-%m-%d")
strftime(n) ==
    LET yn == YearOf(n, 2026)
        mn == MonthOf(yn[2], yn[1], 1)
    IN  <<yn[1], mn[1], mn[2]>>

\* Mutant of RangeLen: the stop value is taken as included.
RangeLenInclusive(stop, st) ==
    IF st > 0
    THEN (IF stop >= 0 THEN (stop \div st) + 1 ELSE 0)
    ELSE (IF stop <= 0 THEN ((0 - stop) \div (0 - st)) + 1 ELSE 0)

\* len(range(0, stop, st)) for st # 0
RangeLen(stop, st) ==
    IF st > 0
    THEN (IF stop > 0 THEN (stop + st - 1) \div st ELSE 0)
    ELSE (IF stop < 0 THEN ((0 - stop) - st - 1) \div (0 - st) ELSE 0)

\* range(0, stop, st) raises ValueError when st = 0
RangeRaises(st) == st = 0

\* generate_date_options(segment, step), for step # 0
generate_date_options(segment, st) ==
    LET start == strptime(segment.start_date)
    IN  [k \in 1..RangeLen(segment.days_range, st) |-> strftime(start + (k - 1) * st)]

(***************************************************************************)
(* Dicts (insertion ordered) and small helpers                             *)
(***************************************************************************)
DictHas(d, k) == \E i \in 1..Len(d) : d[i].k = k

DictGet(d, k) == d[CHOOSE i \in 1..Len(d) : d[i].k = k].v

\* d[k] = v: an existing key keeps its position, a new key goes last
DictSet(d, k, v) ==
    IF DictHas(d, k)
    THEN [i \in 1..Len(d) |-> IF d[i].k = k THEN [k |-> k, v |-> v] ELSE d[i]]
    ELSE Append(d, [k |-> k, v |-> v])

\* list(d.values())
DictValues(d) == [i \in 1..Len(d) |-> d[i].v]

SetMin(S) == CHOOSE x \in S : \A y \in S : x <= y

\* min(entries, key=lambda x: x["price"]) of a non-empty list: the first minimal one
MinByPrice(entries) ==
    entries[CHOOSE i \in 1..Len(entries) :
                /\ \A j \in 1..Len(entries) : entries[i].price <= entries[j].price
                /\ \A j \in 1..(i - 1) : entries[j].price > entries[i].price]

RECURSIVE SumPrices(_)
SumPrices(s) == IF s = <<>> THEN 0 ELSE Head(s).price + SumPrices(Tail(s))

\* The sequences that enumerate the set S once each: the orders in which a Python
\* set of strings can be iterated (the order depends on the interpreter's hash seed).
Orders(S) ==
    {o \in [1..Cardinality(S) -> S] : \A i, j \in 1..Cardinality(S) : o[i] = o[j] => i = j}

(***************************************************************************)
(* find_cheapest_per_segment: the per-airline index                        *)
(***************************************************************************)
\* Mutant of UpdateBest: an airline's first offer is kept, whatever comes later.
UpdateBestKeepFirst(best, offer, date) ==
    IF ~DictHas(best, offer.airline)
    THEN DictSet(best, offer.airline, [offer |-> offer, price |-> offer.price, date |-> date])
    ELSE best

\* body of "for offer in offers"
UpdateBest(best, offer, date) ==
    LET airline_code == offer.airline
        price == offer.price
    IN  IF ~DictHas(best, airline_code) \/ price < DictGet(best, airline_code).price
        THEN DictSet(best, airline_code, [offer |-> offer, price |-> price, date |-> date])
        ELSE best

\* "for offer in offers" over one response
RECURSIVE FoldOffers(_, _, _)
FoldOffers(best, offers, date) ==
    IF offers = <<>> THEN best
    ELSE FoldOffers(UpdateBest(best, Head(offers), date), Tail(offers), date)

\* what is appended to segment_cheapest for one segment
SegmentResult(best, same) ==
    IF same THEN DictValues(best)
    ELSE IF best = <<>> THEN None ELSE Some(MinByPrice(DictValues(best)))

(***************************************************************************)
(* combine_segments                                                        *)
(***************************************************************************)
AirlineSet(segs) == {segs[i].offer.airline : i \in 1..Len(segs)}

\* set.intersection(*airline_sets), for at least one segment
CommonAirlines(segment_results) ==
    {a \in AirlineSet(segment_results[1]) :
        \A i \in 1..Len(segment_results) : a \in AirlineSet(segment_results[i])}

\* the cheapest entry of one airline in one segment's list
AirlineEntry(segs, airline) ==
    MinByPrice(SelectSeq(segs, LAMBDA s : s.offer.airline = airline))

\* the FlightOffer built for one airline by the inner loop
AirlineItinerary(segment_results, airline) ==
    LET chosen == [i \in 1..Len(segment_results) |-> AirlineEntry(segment_results[i], airline)]
    IN  [segments |-> [i \in 1..Len(chosen) |-> chosen[i].offer],
         price |-> SumPrices(chosen),
         dates |-> [i \in 1..Len(chosen) |-> chosen[i].date]]

\* Mutant of CombineLoop: best_price is never compared, the last airline wins.
RECURSIVE CombineLoopLast(_, _, _)
CombineLoopLast(segment_results, order, best) ==
    IF order = <<>> THEN best
    ELSE CombineLoopLast(segment_results, Tail(order),
                         Some(AirlineItinerary(segment_results, Head(order))))

\* "for airline in common_airlines", iterated in the given order; best = None
\* stands for best_price = inf
RECURSIVE CombineLoop(_, _, _)
CombineLoop(segment_results, order, best) ==
    IF order = <<>> THEN best
    ELSE LET cand == AirlineItinerary(segment_results, Head(order))
         IN  CombineLoop(segment_results, Tail(order),
                         IF best = None \/ cand.price < best[1].price
                         THEN Some(cand) ELSE best)

\* the else branch: every truthy segment result contributes its offer
CombineIndependent(segment_results) ==
    LET present == SelectSeq(segment_results, LAMBDA seg : seg # None)
        chosen == [i \in 1..Len(present) |-> present[i][1].offer]
    IN  Some([segments |-> chosen,
              price |-> SumPrices(chosen),
              dates |-> [i \in 1..Len(chosen) |-> chosen[i].date]])

combine_segments(segment_results, same, order) ==
    IF same THEN CombineLoop(segment_results, order, None)
    ELSE CombineIndependent(segment_results)

(***************************************************************************)
(* The price history (table cheapest_flights)                              *)
(***************************************************************************)
KeyPrices(rows, key) == {rows[i].price : i \in {j \in 1..Len(rows) : rows[j].itinerary = key}}

\* SELECT MIN(price) ...; return row[0] if row and row[0] else None
get_prev_best(rows, itinerary_key) ==
    LET ps == KeyPrices(rows, itinerary_key)
    IN  IF ps = {} THEN None
        ELSE IF SetMin(ps) # 0 THEN Some(SetMin(ps)) ELSE None

\* INSERT INTO cheapest_flights (itinerary, price)
save_offer(rows, itinerary_key, price) ==
    Append(rows, [itinerary |-> itinerary_key, price |-> price])

\* "-".join(f"{origin}->{destination}:{date}" for seg, date in zip(ITINERARY, dates))
ItineraryKey(itin, ds) ==
    LET n == IF Len(itin) < Len(ds) THEN Len(itin) ELSE Len(ds)
    IN  [i \in 1..n |-> <<itin[i].origin, itin[i].destination, ds[i]>>]

\* all(segment_results)
AllTruthy(segment_results) == \A i \in 1..Len(segment_results) : segment_results[i] # <<>>

(***************************************************************************)
(* Inputs                                                                  *)
(***************************************************************************)
\* ITINERARY, with the two windows as parameters
Itinerary(w1, w2) ==
    << [origin |-> "SIN", destination |-> "VIE", start_date |-> <<2026, 8, 22>>, days_range |-> w1],
       [origin |-> "ZAG", destination |-> "SIN", start_date |-> <<2026, 9, 6>>, days_range |-> w2] >>

\* The offers a provider can return for one date: they depart on that date.
Offers(date) == {[airline |-> a, price |-> p, date |-> date] : a \in Airlines, p \in Prices}

\* The responses to one query: at most MaxQuotes offers, in any order.
RECURSIVE SeqsUpTo(_, _)
SeqsUpTo(S, n) ==
    IF n = 0 THEN {<<>>}
    ELSE LET shorter == SeqsUpTo(S, n - 1)
         IN  shorter \cup {Append(q, x) : q \in {r \in shorter : Len(r) = n - 1}, x \in S}

Responses(date) == SeqsUpTo(Offers(date), MaxQuotes)

(***************************************************************************)
(* find_cheapest_per_segment as one call                                   *)
(***************************************************************************)
\* The values airline_best can have after the dates ds, from the values in S: each
\* query raises (airline_best is left as it is) or returns a response that is folded in.
RECURSIVE IndexOutcomes(_, _)
IndexOutcomes(ds, S) ==
    IF ds = <<>> THEN S
    ELSE IndexOutcomes(Tail(ds),
            S \cup {FoldOffers(b, r, Head(ds)) : b \in S, r \in Responses(Head(ds))})

\* The lists find_cheapest_per_segment can return for segments i.. of itin (step # 0)
RECURSIVE ScanOutcomes(_, _, _, _)
ScanOutcomes(itin, st, same, i) ==
    IF i > Len(itin) THEN {<<>>}
    ELSE LET firsts == {SegmentResult(b, same) :
                            b \in IndexOutcomes(generate_date_options(itin[i], st), {<<>>})}
         IN  {<<f>> \o rest : f \in firsts, rest \in ScanOutcomes(itin, st, same, i + 1)}

\* The configuration of the runs: ITINERARY with windows of 3 and 1 days (two dates, one date), STEP_DAYS
RunItinerary == Itinerary(3, 1)

RunScans == [same \in BOOLEAN |-> ScanOutcomes(RunItinerary, STEP_DAYS, same, 1)]

(***************************************************************************)
(* run_check                                                               *)
(***************************************************************************)
\* run_check up to the return of find_cheapest_per_segment: init_db() creates the
\* tables if they are missing, the client is built, every segment is scanned.
Scan ==
    /\ pc = "idle"
    /\ run < MaxRuns
    /\ run' = run + 1
    /\ pc' = "scanned"
    /\ \E result \in RunScans[same_airline] : segment_cheapest' = result
    /\ best_offer' = None
    /\ alerts' = <<>>
    /\ outcome' = "running"
    /\ db0' = db
    /\ UNCHANGED <<same_airline, step, itinerary, seg_i, dates, airline_best, db,
                   queried, seen, fed>>

\* Mutant of WithinCeiling: the price is not compared with MAX_PRICE.
AnyOffer(best) == best # None

\* "if best_offer and best_offer.price <= MAX_PRICE"
WithinCeiling(best) == best # None /\ best[1].price <= MAX_PRICE

\* run_check after the scan: the all() check, combine_segments, the price ceiling,
\* the comparison with the history, the alert and the history row.  The locals are
\* gone when run_check returns.
Finish ==
    /\ pc = "scanned"
    /\ pc' = "idle"
    /\ segment_cheapest' = <<>>
    /\ IF ~AllTruthy(segment_cheapest)
       THEN /\ outcome' = "no_offers"
            /\ UNCHANGED <<best_offer, db, alerts>>
       ELSE \E order \in Orders(IF same_airline THEN CommonAirlines(segment_cheapest) ELSE {}) :
              LET best == combine_segments(segment_cheapest, same_airline, order)
              IN  /\ best_offer' = best
                  /\ IF WithinCeiling(best)
                     THEN LET itinerary_key == ItineraryKey(itinerary, best[1].dates)
                              prev_best == get_prev_best(db, itinerary_key)
                          IN  /\ alerts' = IF prev_best = None \/ best[1].price < prev_best[1]
                                           THEN Append(alerts, best[1])
                                           ELSE alerts
                              /\ db' = save_offer(db, itinerary_key, best[1].price)
                              /\ outcome' = "recorded"
                     ELSE /\ outcome' = "no_match"
                          /\ UNCHANGED <<db, alerts>>
    /\ UNCHANGED <<same_airline, step, itinerary, run, seg_i, dates, airline_best,
                   queried, seen, fed, db0>>

NoSeen == <<{}, {}>>

Init ==
    /\ pc = "idle"
    /\ same_airline \in BOOLEAN
    /\ step = STEP_DAYS
    /\ itinerary = RunItinerary
    /\ run = 0
    /\ seg_i = 1
    /\ dates = <<>>
    /\ airline_best = <<>>
    /\ segment_cheapest = <<>>
    /\ best_offer = None
    /\ db = <<>>
    /\ alerts = <<>>
    /\ outcome = "none"
    /\ queried = <<>>
    /\ seen = NoSeen
    /\ fed = <<>>
    /\ db0 = <<>>

Next == Scan \/ Finish

Spec == Init /\ [][Next]_vars

(***************************************************************************)
(* find_cheapest_per_segment, one action per step                          *)
(***************************************************************************)
\* "for seg in ITINERARY": the next segment is entered and its dates are expanded,
\* or the loop ends and segment_cheapest is returned.  range() raises ValueError
\* for a step of 0, outside the try block: the call ends with that exception.
NextSegment ==
    /\ pc = "segment"
    /\ IF seg_i > Len(itinerary)
       THEN /\ pc' = "returned"
            /\ UNCHANGED <<dates, airline_best>>
       ELSE /\ airline_best' = <<>>
            /\ IF RangeRaises(step)
               THEN /\ pc' = "raised"
                    /\ UNCHANGED dates
               ELSE /\ pc' = "dates"
                    /\ dates' = generate_date_options(itinerary[seg_i], step)
    /\ UNCHANGED <<same_airline, step, itinerary, run, seg_i, segment_cheapest, best_offer,
                   db, alerts, outcome, queried, seen, fed, db0>>

\* Mutant of QueryFails: the exception ends the loop over the segment's dates.
QueryFailsAborts ==
    /\ pc = "dates"
    /\ dates # <<>>
    /\ queried' = Append(queried, <<seg_i, Head(dates), FALSE>>)
    /\ dates' = <<>>
    /\ UNCHANGED <<pc, same_airline, step, itinerary, run, seg_i, airline_best,
                   segment_cheapest, best_offer, db, alerts, outcome, seen, fed, db0>>

\* One iteration of "for date in ...": the provider is queried for the date.  The
\* query raises (the except clause prints the error and the loop goes on), or it
\* answers with offers, which are folded into airline_best.
QueryFails ==
    /\ pc = "dates"
    /\ dates # <<>>
    /\ queried' = Append(queried, <<seg_i, Head(dates), FALSE>>)
    /\ dates' = Tail(dates)
    /\ UNCHANGED <<pc, same_airline, step, itinerary, run, seg_i, airline_best,
                   segment_cheapest, best_offer, db, alerts, outcome, seen, fed, db0>>

QueryAnswers ==
    /\ pc = "dates"
    /\ dates # <<>>
    /\ queried' = Append(queried, <<seg_i, Head(dates), TRUE>>)
    /\ dates' = Tail(dates)
    /\ \E offers \in Responses(Head(dates)) :
          /\ airline_best' = FoldOffers(airline_best, offers, Head(dates))
          /\ seen' = [seen EXCEPT ![seg_i] = @ \cup {<<offers[i].airline, offers[i].price>> : i \in 1..Len(offers)}]
    /\ UNCHANGED <<pc, same_airline, step, itinerary, run, seg_i, segment_cheapest,
                   best_offer, db, alerts, outcome, fed, db0>>

\* The dates of the segment are exhausted: its result is appended.
EndSegment ==
    /\ pc = "dates"
    /\ dates = <<>>
    /\ segment_cheapest' = Append(segment_cheapest, SegmentResult(airline_best, same_airline))
    /\ seg_i' = seg_i + 1
    /\ pc' = "segment"
    /\ UNCHANGED <<same_airline, step, itinerary, run, dates, airline_best, best_offer,
                   db, alerts, outcome, queried, seen, fed, db0>>

\* find_cheapest_per_segment is entered with any step and any two windows: at most
\* two dates for the first segment and one for the second.
ScanSteps == {-1, 0, 1, 2}
ScanWindows1 == {-1, 0, 1, 2}
ScanWindows2 == {-1, 0, 1}

InitScan ==
    /\ pc = "segment"
    /\ same_airline \in BOOLEAN
    /\ step \in ScanSteps
    /\ \E w1 \in ScanWindows1, w2 \in ScanWindows2 : itinerary = Itinerary(w1, w2)
    /\ run = 1
    /\ seg_i = 1
    /\ dates = <<>>
    /\ airline_best = <<>>
    /\ segment_cheapest = <<>>
    /\ best_offer = None
    /\ db = <<>>
    /\ alerts = <<>>
    /\ outcome = "running"
    /\ queried = <<>>
    /\ seen = NoSeen
    /\ fed = <<>>
    /\ db0 = <<>>

NextScan == NextSegment \/ QueryFails \/ QueryAnswers \/ EndSegment

SpecScan == InitScan /\ [][NextScan]_vars

(***************************************************************************)
(* generate_date_options on its own                                        *)
(***************************************************************************)
StartDates == {<<2026, 8, 22>>, <<2026, 9, 6>>, <<2026, 12, 30>>, <<2027, 2, 27>>, <<2028, 2, 27>>}
DateSteps == {-2, -1, 0, 1, 2, 3}

ExpandDates ==
    /\ pc = "call"
    /\ IF RangeRaises(step)
       THEN /\ pc' = "raised"
            /\ UNCHANGED dates
       ELSE /\ pc' = "returned"
            /\ dates' = generate_date_options(itinerary[1], step)
    /\ UNCHANGED <<same_airline, step, itinerary, run, seg_i, airline_best, segment_cheapest,
                   best_offer, db, alerts, outcome, queried, seen, fed, db0>>

InitDates ==
    /\ pc = "call"
    /\ same_airline = TRUE
    /\ step \in DateSteps
    /\ \E d \in StartDates, w \in (0 - 1)..MaxWindow :
          itinerary = <<[origin |-> "SIN", destination |-> "VIE", start_date |-> d, days_range |-> w]>>
    /\ run = 0
    /\ seg_i = 1
    /\ dates = <<>>
    /\ airline_best = <<>>
    /\ segment_cheapest = <<>>
    /\ best_offer = None
    /\ db = <<>>
    /\ alerts = <<>>
    /\ outcome = "none"
    /\ queried = <<>>
    /\ seen = NoSeen
    /\ fed = <<>>
    /\ db0 = <<>>

SpecDates == InitDates /\ [][ExpandDates]_vars

(***************************************************************************)
(* The index update on its own: offers of one segment, from any dates, in  *)
(* any order                                                               *)
(***************************************************************************)
FedDates == {<<2026, 8, 22>>, <<2026, 8, 24>>}
FedOffers == UNION {Offers(d) : d \in FedDates}

Feed ==
    /\ pc = "offers"
    /\ Len(fed) < MaxFed
    /\ \E offer \in FedOffers :
          /\ airline_best' = UpdateBest(airline_best, offer, offer.date)
          /\ fed' = Append(fed, offer)
    /\ UNCHANGED <<pc, same_airline, step, itinerary, run, seg_i, dates, segment_cheapest,
                   best_offer, db, alerts, outcome, queried, seen, db0>>

InitIndex ==
    /\ pc = "offers"
    /\ same_airline = TRUE
    /\ step = STEP_DAYS
    /\ itinerary = RunItinerary
    /\ run = 0
    /\ seg_i = 1
    /\ dates = <<>>
    /\ airline_best = <<>>
    /\ segment_cheapest = <<>>
    /\ best_offer = None
    /\ db = <<>>
    /\ alerts = <<>>
    /\ outcome = "none"
    /\ queried = <<>>
    /\ seen = NoSeen
    /\ fed = <<>>
    /\ db0 = <<>>

SpecIndex == InitIndex /\ [][Feed]_vars

(***************************************************************************)
(* The price history on its own: save_offer with any key and price         *)
(***************************************************************************)
HistoryKeys == {ItineraryKey(RunItinerary, <<d, <<2026, 9, 6>>>>) : d \in FedDates}

SaveOffer ==
    /\ pc = "history"
    /\ Len(db) < MaxRows
    /\ \E key \in HistoryKeys, price \in Prices : db' = save_offer(db, key, price)
    /\ db0' = db
    /\ UNCHANGED <<pc, same_airline, step, itinerary, run, seg_i, dates, airline_best,
                   segment_cheapest, best_offer, alerts, outcome, queried, seen, fed>>

InitHistory ==
    /\ pc = "history"
    /\ same_airline = TRUE
    /\ step = STEP_DAYS
    /\ itinerary = RunItinerary
    /\ run = 0
    /\ seg_i = 1
    /\ dates = <<>>
    /\ airline_best = <<>>
    /\ segment_cheapest = <<>>
    /\ best_offer = None
    /\ db = <<>>
    /\ alerts = <<>>
    /\ outcome = "none"
    /\ queried = <<>>
    /\ seen = NoSeen
    /\ fed = <<>>
    /\ db0 = <<>>

SpecHistory == InitHistory /\ [][SaveOffer]_vars

(***************************************************************************)
(* combine_segments on its own: any list of segment results                *)
(***************************************************************************)
\* The entries an index can hold for segment i: offers of the segment's start date.
Entries(i) ==
    {[offer |-> o, price |-> o.price, date |-> o.date] : o \in Offers(RunItinerary[i].start_date)}

\* list(airline_best.values()): at most one entry per airline, in any order
EntryLists(i) ==
    {l \in SeqsUpTo(Entries(i), Cardinality(Airlines)) :
        \A j, k \in 1..Len(l) : l[j].offer.airline = l[k].offer.airline => j = k}

\* What find_cheapest_per_segment appends for segment i
SegmentResults(i, same) ==
    IF same THEN EntryLists(i) ELSE {None} \cup {Some(e) : e \in Entries(i)}

\* Lists of results for segments i..n (segments beyond ITINERARY's two reuse its dates)
RECURSIVE ResultLists(_, _, _)
ResultLists(i, n, same) ==
    IF i > n THEN {<<>>}
    ELSE {<<f>> \o rest : f \in SegmentResults(((i - 1) % 2) + 1, same),
                          rest \in ResultLists(i + 1, n, same)}

Combine ==
    /\ pc = "call"
    /\ pc' = "returned"
    /\ \E order \in Orders(IF same_airline THEN CommonAirlines(segment_cheapest) ELSE {}) :
          best_offer' = combine_segments(segment_cheapest, same_airline, order)
    /\ UNCHANGED <<same_airline, step, itinerary, run, seg_i, dates, airline_best,
                   segment_cheapest, db, alerts, outcome, queried, seen, fed, db0>>

InitCombine ==
    /\ pc = "call"
    /\ same_airline \in BOOLEAN
    /\ step = STEP_DAYS
    /\ itinerary = RunItinerary
    /\ run = 0
    /\ seg_i = 1
    /\ dates = <<>>
    /\ airline_best = <<>>
    /\ \E n \in 1..MaxSegments : segment_cheapest \in ResultLists(1, n, same_airline)
    /\ best_offer = None
    /\ db = <<>>
    /\ alerts = <<>>
    /\ outcome = "none"
    /\ queried = <<>>
    /\ seen = NoSeen
    /\ fed = <<>>
    /\ db0 = <<>>

SpecCombine == InitCombine /\ [][Combine]_vars

(***************************************************************************)
(* Properties                                                              *)
(***************************************************************************)
SeqSet(q) == {q[i] : i \in 1..Len(q)}

\* ---- combine_segments ----
NonEmptyResults == \A i \in 1..Len(segment_cheapest) : segment_cheapest[i] # <<>>

InEverySegment(a) ==
    \A i \in 1..Len(segment_cheapest) : \E e \in SeqSet(segment_cheapest[i]) : e.offer.airline = a

AirlinePrices(segs, a) == {e.price : e \in {x \in SeqSet(segs) : x.offer.airline = a}}

RECURSIVE AirlineTotal(_, _)
AirlineTotal(a, i) ==
    IF i > Len(segment_cheapest) THEN 0
    ELSE SetMin(AirlinePrices(segment_cheapest[i], a)) + AirlineTotal(a, i + 1)

\* C1: in same-airline mode, on non-empty segment results, combine_segments returns
\* None when no airline is in every segment; otherwise it returns, for one airline a
\* that is in every segment and whose sum of per-segment best prices is minimal among
\* such airlines, one offer per segment, in segment order, each the offer of a's
\* cheapest entry of that segment, at a price equal to that sum.
C1_SameAirlineCheapest ==
    (pc = "returned" /\ same_airline /\ NonEmptyResults) =>
        LET common == {a \in Airlines : InEverySegment(a)}
        IN  IF common = {} THEN best_offer = None
            ELSE /\ best_offer # None
                 /\ Len(best_offer[1].segments) = Len(segment_cheapest)
                 /\ Len(best_offer[1].dates) = Len(segment_cheapest)
                 /\ best_offer[1].price = SumPrices(best_offer[1].segments)
                 /\ \E a \in common :
                       /\ best_offer[1].price = AirlineTotal(a, 1)
                       /\ \A b \in common : AirlineTotal(a, 1) <= AirlineTotal(b, 1)
                       /\ \A i \in 1..Len(segment_cheapest) :
                             /\ best_offer[1].segments[i].airline = a
                             /\ \E e \in SeqSet(segment_cheapest[i]) :
                                   /\ e.offer = best_offer[1].segments[i]
                                   /\ e.date = best_offer[1].dates[i]
                                   /\ e.price = SetMin(AirlinePrices(segment_cheapest[i], a))

\* Two segments, both airlines in both, and the winner is dearer than the other
\* airline on the first segment.
C1_Witness ==
    /\ pc = "returned" /\ same_airline
    /\ Len(segment_cheapest) = 2
    /\ \A a \in Airlines : InEverySegment(a)
    /\ best_offer # None
    /\ \E b \in Airlines :
          /\ b # best_offer[1].segments[1].airline
          /\ SetMin(AirlinePrices(segment_cheapest[1], b)) < best_offer[1].segments[1].price
          /\ AirlineTotal(b, 1) > best_offer[1].price

\* C7: in same-airline mode the itinerary returned does not depend on the order in
\* which the set of common airlines is iterated (ties between airlines of equal
\* minimal total are decided by the airline codes alone).
C7_TieBreakDeterministic ==
    (pc = "returned" /\ same_airline /\ NonEmptyResults) =>
        \A order \in Orders(CommonAirlines(segment_cheapest)) :
            combine_segments(segment_cheapest, TRUE, order) = best_offer

\* C8: in both modes, when the result of some segment is empty, combine_segments
\* returns None.
C8_EmptySegmentGivesNone ==
    (pc = "returned" /\ ~NonEmptyResults) => best_offer = None

\* ---- the index of one segment ----
FedPricesOf(a) == {o.price : o \in {x \in SeqSet(fed) : x.airline = a}}

StoredPrices(best) == {<<best[i].k, best[i].v.price>> : i \in 1..Len(best)}

RECURSIVE FoldFed(_, _)
FoldFed(best, offers) ==
    IF offers = <<>> THEN best
    ELSE FoldFed(UpdateBest(best, Head(offers), Head(offers).date), Tail(offers))

\* C2: after any sequence of offers the index holds at most one entry per airline,
\* an entry for exactly the airlines that occurred, each at the minimum price among
\* the offers of that airline; and every permutation of the sequence gives the same
\* stored prices.
C2_IndexHoldsMinimum ==
    /\ \A i, j \in 1..Len(airline_best) : airline_best[i].k = airline_best[j].k => i = j
    /\ \A a \in Airlines :
          IF FedPricesOf(a) = {} THEN ~DictHas(airline_best, a)
          ELSE /\ DictHas(airline_best, a)
               /\ DictGet(airline_best, a).price = SetMin(FedPricesOf(a))
               /\ DictGet(airline_best, a).offer.airline = a
    /\ \A perm \in Orders(1..Len(fed)) :
          StoredPrices(FoldFed(<<>>, [i \in 1..Len(fed) |-> fed[perm[i]]]))
              = StoredPrices(airline_best)

\* Three offers of one airline, the cheapest in the middle, and it is the one kept.
C2_Witness ==
    /\ pc = "offers"
    /\ Len(fed) = 3
    /\ fed[1].airline = fed[2].airline /\ fed[2].airline = fed[3].airline
    /\ fed[2].price < fed[1].price /\ fed[2].price < fed[3].price
    /\ Len(airline_best) = 1
    /\ airline_best[1].v.offer = fed[2]

\* ---- find_cheapest_per_segment ----
SeenAirlines(i) == {q[1] : q \in seen[i]}
SeenPrices(i, a) == {q[2] : q \in {r \in seen[i] : r[1] = a}}

\* entries: one per airline quoted in an answered query of segment i, at its minimum
IndexIsMinimum(entries, i) ==
    /\ \A j, k \in 1..Len(entries) : entries[j].offer.airline = entries[k].offer.airline => j = k
    /\ {e.offer.airline : e \in SeqSet(entries)} = SeenAirlines(i)
    /\ \A e \in SeqSet(entries) : e.price = SetMin(SeenPrices(i, e.offer.airline))

ResultIsMinimum(result, i) ==
    IF same_airline THEN IndexIsMinimum(result, i)
    ELSE IF seen[i] = {} THEN result = None
    ELSE /\ result # None
         /\ <<result[1].offer.airline, result[1].price>> \in seen[i]
         /\ \A q \in seen[i] : result[1].price <= q[2]

RECURSIVE AllQueries(_)
AllQueries(i) ==
    IF i > Len(itinerary) THEN <<>>
    ELSE LET ds == generate_date_options(itinerary[i], step)
         IN  [k \in 1..Len(ds) |-> <<i, ds[k]>>] \o AllQueries(i + 1)

\* C6: a query that raises does not end the call (the call raises only before its
\* first query); the index of the segment being scanned, and the result of every
\* segment scanned, hold exactly the airlines quoted in the answered queries of the
\* segment, each at its minimum price (nothing for a segment with no quote); and
\* when the call returns, every date of every segment has been queried, in order.
C6_QueryFailureTolerated ==
    /\ pc = "raised" => queried = <<>>
    /\ pc = "dates" => IndexIsMinimum(DictValues(airline_best), seg_i)
    /\ \A i \in 1..Len(segment_cheapest) : ResultIsMinimum(segment_cheapest[i], i)
    /\ pc = "returned" =>
          /\ Len(segment_cheapest) = Len(itinerary)
          /\ [k \in 1..Len(queried) |-> <<queried[k][1], queried[k][2]>>] = AllQueries(1)

\* The first query raised, the two later ones (same segment, next segment) were
\* answered with quotes, and the call returned.
C6_Witness ==
    /\ pc = "returned"
    /\ Len(queried) = 3
    /\ ~queried[1][3] /\ queried[2][3] /\ queried[3][3]
    /\ queried[2][1] = 1 /\ queried[3][1] = 2
    /\ seen[1] # {} /\ seen[2] # {}

InvalidConfig ==
    \/ step < 1
    \/ \E i \in 1..Len(itinerary) : itinerary[i].days_range <= 0

\* C9: with a step below 1 or a window of 0 or fewer days in any segment, no query
\* is issued and the call does not return a scan result: it ends by reporting the
\* configuration error.
C9_ConfigErrorBeforeQueries ==
    InvalidConfig => (queried = <<>> /\ pc # "returned")

\* ---- generate_date_options ----
NextDay(d) ==
    IF d[3] < DaysInMonth(d[1], d[2]) THEN <<d[1], d[2], d[3] + 1>>
    ELSE IF d[2] < 12 THEN <<d[1], d[2] + 1, 1>>
    ELSE <<d[1] + 1, 1, 1>>

RECURSIVE AddDays(_, _)
AddDays(d, n) == IF n = 0 THEN d ELSE AddDays(NextDay(d), n - 1)

\* C10: for step >= 1 and days_range >= 1 the result starts with start_date, each
\* date is the calendar date step days after the one before, every offset (k-1)*step
\* is below days_range, and the next offset would not be.
C10_DateOptions ==
    (pc = "returned" /\ step >= 1 /\ itinerary[1].days_range >= 1) =>
        /\ Len(dates) >= 1
        /\ dates[1] = itinerary[1].start_date
        /\ \A k \in 1..(Len(dates) - 1) : dates[k + 1] = AddDays(dates[k], step)
        /\ \A k \in 1..Len(dates) : (k - 1) * step < itinerary[1].days_range
        /\ Len(dates) * step >= itinerary[1].days_range

\* A window of 4 days from 30 December in steps of 3: the second date is 2 January.
C10_Witness ==
    /\ pc = "returned"
    /\ step = 3
    /\ itinerary[1].start_date = <<2026, 12, 30>>
    /\ itinerary[1].days_range = 4
    /\ dates = << <<2026, 12, 30>>, <<2027, 1, 2>> >>

\* ---- the price history ----
RecordedPrices(rows, key) == {rows[i].price : i \in {j \in 1..Len(rows) : rows[j].itinerary = key}}

\* C5: get_prev_best(key) is None when no row has the key, and otherwise the minimum
\* of the prices recorded for the key (zero included); save_offer only appends.
C5_PrevBestIsMinimum ==
    /\ \A key \in HistoryKeys :
          get_prev_best(db, key) =
              IF RecordedPrices(db, key) = {} THEN None
              ELSE Some(SetMin(RecordedPrices(db, key)))
    /\ db # <<>> => SubSeq(db, 1, Len(db) - 1) = db0

\* ---- run_check ----
\* C3: a run that recorded a price sent a notification if and only if no price had
\* been recorded for the itinerary key before the run, or the price is strictly
\* below the minimum recorded for the key before the run.
C3_NotifyIffNewLow ==
    (pc = "idle" /\ outcome = "recorded") =>
        LET before == RecordedPrices(db0, ItineraryKey(itinerary, best_offer[1].dates))
        IN  (alerts # <<>>) <=> (before = {} \/ best_offer[1].price < SetMin(before))

NoValidItinerary ==
    \/ ~AllTruthy(segment_cheapest)
    \/ same_airline /\ CommonAirlines(segment_cheapest) = {}

\* C4: the step of run_check that follows the scan sends a notification or adds a
\* history row only if every segment has a result and the combined itinerary exists,
\* covers every segment and costs at most MAX_PRICE; with no valid itinerary, or
\* with a total above MAX_PRICE, it sends nothing and leaves the history as it was.
C4_CeilingGatesAlertAndHistory ==
    [][pc = "scanned" =>
        /\ (alerts' # alerts \/ db' # db) =>
              /\ ~NoValidItinerary
              /\ best_offer' # None
              /\ Len(best_offer'[1].segments) = Len(itinerary)
              /\ best_offer'[1].price <= MAX_PRICE
        /\ (NoValidItinerary \/ (best_offer' # None /\ best_offer'[1].price > MAX_PRICE)) =>
              /\ alerts' = alerts
              /\ db' = db
              /\ outcome' \in {"no_offers", "no_match"}]_vars

\* A first run found an itinerary of 1450 in total: nothing was recorded before, and
\* the run sent nothing and recorded nothing.
C4_Witness ==
    /\ pc = "idle"
    /\ run = 1
    /\ best_offer # None
    /\ best_offer[1].price = 1450
    /\ outcome = "no_match"
    /\ alerts = <<>>
    /\ db = <<>>

====
